---- MODULE Spec2Model ----
(***************************************************************************)
(* Model of src/app.py, a Streamlit document question-answering script.    *)
(*                                                                         *)
(* Streamlit re-executes the whole script (the __main__ block, lines       *)
(* 113-119) once per user event.  st.session_state and the values of the   *)
(* rendered widgets (the file uploader, the question text input) persist   *)
(* between the executions; st.button is TRUE only in the execution that    *)
(* its click triggers.  One action of the model is one user event followed *)
(* by the complete execution of the script it triggers.                    *)
(*                                                                         *)
(* Texts (page texts, document text, questions) are sequences of           *)
(* one-character strings so that length and whitespace splitting are       *)
(* computed.  API keys, file names and messages are opaque strings.  A     *)
(* Python value that may be None is a sequence of length 0 (None) or 1.    *)
(* A call that may raise returns a record with a "raised" field.           *)
(***************************************************************************)
EXTENDS FiniteSets, Integers, Sequences, TLC

VARIABLES secrets, env, session_state, prev_session, uploaded_file, question,
          out, event, fn

vars == <<secrets, env, session_state, prev_session, uploaded_file, question,
          out, event, fn>>

(***************************************************************************)
(* Bounds                                                                  *)
(***************************************************************************)
MaxPages == 2
MaxQuestionLen == 1
MaxFnTextLen == 1

(***************************************************************************)
(* Inputs                                                                  *)
(***************************************************************************)
None == <<>>
Some(v) == <<v>>

Hello == <<"H", "e", "l", "l", "o">>
World == <<"W", "o", "r", "l", "d">>

\* the characters str.split() and str.isspace() treat as whitespace; a
\* character that cannot be written in a string is named by its Python escape
Whitespace ==
    { "\t", "\n", "\\x0b", "\f", "\r", "\\x1c", "\\x1d", "\\x1e", "\\x1f", " ",
      "\\x85", "\\xa0", "\\u1680", "\\u2000", "\\u2001", "\\u2002", "\\u2003",
      "\\u2004", "\\u2005", "\\u2006", "\\u2007", "\\u2008", "\\u2009", "\\u200a",
      "\\u2028", "\\u2029", "\\u202f", "\\u205f", "\\u3000" }

\* a page whose two words are separated by a carriage return
CrPage == <<"a", "\r", "b">>

\* texts a page may extract to; the empty text is an image-only page
PageTexts == {<<>>, Hello}

SeqsUpTo(S, n) == UNION {[1..k -> S] : k \in 0..n}

Names == {"a.pdf", "b.pdf"}

\* an uploaded file: valid = FALSE is a stream PyPDF2 cannot parse; the
\* two-page document Hello, World and the one-page document CrPage are
\* always among the files
Files == [name : Names, valid : {TRUE},
          pages : SeqsUpTo(PageTexts, MaxPages)
                  \cup {<<Hello, World>>, <<CrPage>>}]
         \cup [name : Names, valid : {FALSE}, pages : {<<>>}]

Questions == SeqsUpTo({" ", "q"}, MaxQuestionLen)

\* outcome of st.secrets["ANTHROPIC_API_KEY"]
SecretsOutcomes ==
    { [raised |-> TRUE,  msg |-> "No secrets found.", val |-> ""],
      [raised |-> TRUE,  msg |-> "'ANTHROPIC_API_KEY'", val |-> ""],
      [raised |-> FALSE, msg |-> "", val |-> ""],
      [raised |-> FALSE, msg |-> "", val |-> "sk-secret"] }

\* outcome of os.getenv("ANTHROPIC_API_KEY")
EnvOutcomes == {None, Some(""), Some("sk-env")}

\* outcome of client.messages.create(...)
ApiOutcomes ==
    { [raised |-> TRUE,  msg |-> "Connection error.", content |-> <<>>],
      [raised |-> FALSE, msg |-> "", content |-> <<>>],
      [raised |-> FALSE, msg |-> "", content |-> <<"The sky is blue.">>],
      [raised |-> FALSE, msg |-> "", content |-> <<"It is about the sky.", "More.">>] }

AuthErrorMsg == "Could not resolve authentication method."
IndexErrorMsg == "list index out of range"

(***************************************************************************)
(* get_api_key, lines 11-25                                                *)
(***************************************************************************)
get_api_key_env_first(s, e) ==
    IF e # None /\ e[1] # ""
    THEN [raised |-> FALSE, key |-> Some(e[1])]
    ELSE IF ~s.raised /\ s.val # ""
         THEN [raised |-> FALSE, key |-> Some(s.val)]
         ELSE [raised |-> FALSE, key |-> None]

get_api_key(s, e) ==
    IF ~s.raised /\ s.val # ""
    THEN [raised |-> FALSE, key |-> Some(s.val)]
    ELSE IF e # None /\ e[1] # ""
         THEN [raised |-> FALSE, key |-> Some(e[1])]
         ELSE [raised |-> FALSE, key |-> None]

\* the lines one call of get_api_key renders: the st.write of line 18
secrets_debug(s) ==
    IF s.raised THEN Some("Debug: Secrets error: " \o s.msg) ELSE None

(***************************************************************************)
(* extract_text_from_pdf, lines 27-33                                      *)
(***************************************************************************)
RECURSIVE extract_pages(_, _)
extract_pages(pages, text) ==
    IF pages = <<>>
    THEN text
    ELSE extract_pages(Tail(pages), text \o Head(pages) \o <<"\n">>)

RECURSIVE extract_pages_separated(_, _)
extract_pages_separated(pages, text) ==
    IF pages = <<>>
    THEN text
    ELSE extract_pages_separated(Tail(pages),
            IF text = <<>> THEN Head(pages) ELSE text \o <<"\n">> \o Head(pages))

extract_text_from_pdf_separated(pdf_file) ==
    IF ~pdf_file.valid
    THEN [raised |-> TRUE, text |-> <<>>]
    ELSE [raised |-> FALSE, text |-> extract_pages_separated(pdf_file.pages, <<>>)]

extract_text_from_pdf(pdf_file) ==
    IF ~pdf_file.valid
    THEN [raised |-> TRUE, text |-> <<>>]
    ELSE [raised |-> FALSE, text |-> extract_pages(pdf_file.pages, <<>>)]

(***************************************************************************)
(* query_claude, lines 35-57                                               *)
(***************************************************************************)
\* the f-string of lines 40-47, kept as its five segments
prompt_of(document_text, q) ==
    << "Based on the following document content, please answer the question. If the answer cannot be found in the document, please say so.\n\nDocument content:\n",
       document_text, "\n\nQuestion: ", q, "\n\nAnswer:" >>

request_of(document_text, q) ==
    [model |-> "claude-3-haiku-20240307", max_tokens |-> 1000,
     prompt |-> prompt_of(document_text, q)]

query_claude_uncaught(s, e, document_text, q, api) ==
    LET k == get_api_key(s, e) IN
    IF k.raised \/ k.key = None
    THEN [raised |-> TRUE, value |-> AuthErrorMsg, requests |-> <<>>,
          debug |-> secrets_debug(s)]
    ELSE LET req == <<request_of(document_text, q)>> IN
         IF api.raised
         THEN [raised |-> TRUE, value |-> api.msg, requests |-> req,
               debug |-> secrets_debug(s)]
         ELSE IF api.content = <<>>
              THEN [raised |-> TRUE, value |-> IndexErrorMsg, requests |-> req,
                    debug |-> secrets_debug(s)]
              ELSE [raised |-> FALSE, value |-> api.content[1], requests |-> req,
                    debug |-> secrets_debug(s)]

query_claude(s, e, document_text, q, api) ==
    LET k == get_api_key(s, e) IN
    IF k.raised \/ k.key = None
    THEN [raised |-> FALSE, value |-> "Error querying Claude: " \o AuthErrorMsg,
          requests |-> <<>>, debug |-> secrets_debug(s)]
    ELSE LET req == <<request_of(document_text, q)>> IN
         IF api.raised
         THEN [raised |-> FALSE, value |-> "Error querying Claude: " \o api.msg,
               requests |-> req, debug |-> secrets_debug(s)]
         ELSE IF api.content = <<>>
              THEN [raised |-> FALSE,
                    value |-> "Error querying Claude: " \o IndexErrorMsg,
                    requests |-> req, debug |-> secrets_debug(s)]
              ELSE [raised |-> FALSE, value |-> api.content[1], requests |-> req,
                    debug |-> secrets_debug(s)]

(***************************************************************************)
(* main, lines 59-111                                                      *)
(***************************************************************************)
PreviewLen == 500

\* len(document_text.split()): maximal runs of non-whitespace characters
word_count(text) ==
    Cardinality({i \in 1..Len(text) :
                    /\ text[i] \notin Whitespace
                    /\ (i = 1 \/ text[i - 1] \in Whitespace)})

\* len(document_text)
char_count(text) == Len(text)

\* document_text[:500]
preview(text) ==
    SubSeq(text, 1, IF Len(text) < PreviewLen THEN Len(text) ELSE PreviewLen)

\* lines 64-67: the session state a first execution creates
empty_session == [document_text |-> <<>>, document_name |-> ""]

no_upload(ss) ==
    [ss |-> ss, raised |-> FALSE, extract_calls |-> 0, success |-> None,
     stats |-> None, preview |-> None]

\* lines 72-88 with the name stored before the text is extracted
upload_section_name_first(ss, uf) ==
    IF uf = None
    THEN no_upload(ss)
    ELSE LET named == [ss EXCEPT !.document_name = uf[1].name]
             r == extract_text_from_pdf(uf[1]) IN
         IF r.raised
         THEN [no_upload(named) EXCEPT !.raised = TRUE, !.extract_calls = 1]
         ELSE [ss |-> [named EXCEPT !.document_text = r.text],
               raised |-> FALSE, extract_calls |-> 1,
               success |-> Some(uf[1].name),
               stats |-> Some(<<word_count(r.text), char_count(r.text)>>),
               preview |-> Some(preview(r.text))]

\* lines 72-88 with the extracted text appended to the stored text
upload_section_append(ss, uf) ==
    IF uf = None
    THEN no_upload(ss)
    ELSE LET r == extract_text_from_pdf(uf[1]) IN
         IF r.raised
         THEN [no_upload(ss) EXCEPT !.raised = TRUE, !.extract_calls = 1]
         ELSE [ss |-> [document_text |-> ss.document_text \o r.text,
                       document_name |-> uf[1].name],
               raised |-> FALSE, extract_calls |-> 1,
               success |-> Some(uf[1].name),
               stats |-> Some(<<word_count(r.text), char_count(r.text)>>),
               preview |-> Some(preview(r.text))]

\* lines 72-88
upload_section(ss, uf) ==
    IF uf = None
    THEN no_upload(ss)
    ELSE LET r == extract_text_from_pdf(uf[1]) IN
         IF r.raised
         THEN [no_upload(ss) EXCEPT !.raised = TRUE, !.extract_calls = 1]
         ELSE [ss |-> [document_text |-> r.text, document_name |-> uf[1].name],
               raised |-> FALSE, extract_calls |-> 1,
               success |-> Some(uf[1].name),
               stats |-> Some(<<word_count(r.text), char_count(r.text)>>),
               preview |-> Some(preview(r.text))]

no_qa ==
    [shown |-> FALSE, upload_prompt |-> FALSE, query_calls |-> <<>>,
     returned |-> <<>>, requests |-> <<>>, answer |-> None, warning |-> FALSE,
     error |-> None, debug |-> <<>>]

\* what lines 100-107 do with the result of one query_claude call: the
\* returned string is written as the answer, a raised exception as the error
asked(document_text, q, r) ==
    IF r.raised
    THEN [no_qa EXCEPT !.shown = TRUE,
                       !.query_calls = <<[document_text |-> document_text, question |-> q]>>,
                       !.returned = <<>>,
                       !.requests = r.requests,
                       !.debug = r.debug,
                       !.error = Some(r.value)]
    ELSE [no_qa EXCEPT !.shown = TRUE,
                       !.query_calls = <<[document_text |-> document_text, question |-> q]>>,
                       !.returned = <<r.value>>,
                       !.requests = r.requests,
                       !.debug = r.debug,
                       !.answer = Some(r.value)]

\* lines 91-111 without the test of line 99
qa_section_unchecked(ss, q, button, s, e, api) ==
    IF ss.document_text # <<>>
    THEN IF button
         THEN asked(ss.document_text, q, query_claude(s, e, ss.document_text, q, api))
         ELSE [no_qa EXCEPT !.shown = TRUE]
    ELSE [no_qa EXCEPT !.upload_prompt = TRUE]

\* lines 91-111
qa_section(ss, q, button, s, e, api) ==
    IF ss.document_text # <<>>
    THEN IF button
         THEN IF q # <<>>
              THEN asked(ss.document_text, q,
                         query_claude(s, e, ss.document_text, q, api))
              ELSE [no_qa EXCEPT !.shown = TRUE, !.warning = TRUE]
         ELSE [no_qa EXCEPT !.shown = TRUE]
    ELSE [no_qa EXCEPT !.upload_prompt = TRUE]

\* what one execution of the script showed and did; debug holds the
\* "Debug: Secrets error" lines in the order they were rendered
blank_out ==
    [halted |-> FALSE, crashed |-> FALSE, startup_key |-> None,
     missing_key_error |-> FALSE, debug |-> None,
     main_entered |-> FALSE, uploader_shown |-> FALSE,
     extract_calls |-> 0, success |-> None, stats |-> None, preview |-> None,
     qa_shown |-> FALSE, upload_prompt |-> FALSE, query_calls |-> <<>>,
     returned |-> <<>>, requests |-> <<>>, answer |-> None, warning |-> FALSE, error |-> None]

\* lines 59-111
main(ss, uf, q, button, s, e, api) ==
    LET u == upload_section(ss, uf)
        entered == [blank_out EXCEPT !.main_entered = TRUE,
                                     !.uploader_shown = TRUE,
                                     !.extract_calls = u.extract_calls] IN
    IF u.raised
    THEN [ss |-> u.ss, out |-> [entered EXCEPT !.crashed = TRUE]]
    ELSE LET a == qa_section(u.ss, q, button, s, e, api) IN
         [ss |-> u.ss,
          out |-> [entered EXCEPT !.success = u.success,
                                  !.stats = u.stats,
                                  !.preview = u.preview,
                                  !.qa_shown = a.shown,
                                  !.upload_prompt = a.upload_prompt,
                                  !.query_calls = a.query_calls,
                                  !.returned = a.returned,
                                  !.requests = a.requests,
                                  !.answer = a.answer,
                                  !.warning = a.warning,
                                  !.error = a.error,
                                  !.debug = a.debug]]

(***************************************************************************)
(* The script body, lines 113-119                                          *)
(***************************************************************************)
\* the call of line 115 renders its debug line before anything main renders
with_startup(r, k, s) ==
    [r EXCEPT !.out.startup_key = k.key,
              !.out.debug = secrets_debug(s) \o r.out.debug]

\* lines 113-119 without the st.stop() of line 117
script_no_stop(ss, uf, q, button, s, e, api) ==
    LET k == get_api_key(s, e) IN
    IF k.raised
    THEN with_startup([ss |-> ss, out |-> [blank_out EXCEPT !.crashed = TRUE]], k, s)
    ELSE IF k.key = None
         THEN LET r == main(ss, uf, q, button, s, e, api) IN
              with_startup([r EXCEPT !.out.missing_key_error = TRUE], k, s)
         ELSE with_startup(main(ss, uf, q, button, s, e, api), k, s)

\* lines 113-119
script(ss, uf, q, button, s, e, api) ==
    LET k == get_api_key(s, e) IN
    IF k.raised
    THEN with_startup([ss |-> ss, out |-> [blank_out EXCEPT !.crashed = TRUE]], k, s)
    ELSE IF k.key = None
         THEN with_startup([ss |-> ss,
                            out |-> [blank_out EXCEPT !.halted = TRUE,
                                                      !.missing_key_error = TRUE]],
                           k, s)
         ELSE with_startup(main(ss, uf, q, button, s, e, api), k, s)

(***************************************************************************)
(* State machine: one action per user event                                *)
(***************************************************************************)
\* the argument of messages.create in an execution that does not reach it
IdleApi == [raised |-> TRUE, msg |-> "", content |-> <<>>]

no_call ==
    [called |-> FALSE, document_text |-> <<>>, question |-> <<>>,
     api |-> IdleApi,
     result |-> [raised |-> FALSE, value |-> "", requests |-> <<>>,
                 debug |-> <<>>]]

Init ==
    /\ secrets \in SecretsOutcomes
    /\ env \in EnvOutcomes
    /\ session_state = empty_session
    /\ prev_session = empty_session
    /\ uploaded_file = None
    /\ question = <<>>
    /\ out = blank_out
    /\ event = "none"
    /\ fn = no_call

\* one execution of the script; a text input that was not rendered loses its
\* value; prev_session records the session state the execution started from
Rerun(ev, uf, q, button, api) ==
    LET r == script(session_state, uf, q, button, secrets, env, api) IN
    /\ session_state' = r.ss
    /\ prev_session' = session_state
    /\ out' = r.out
    /\ uploaded_file' = uf
    /\ question' = IF r.out.qa_shown THEN q ELSE <<>>
    /\ event' = ev
    /\ UNCHANGED <<secrets, env, fn>>

\* the browser opens the page
SessionStart ==
    /\ event = "none"
    /\ Rerun("start", None, <<>>, FALSE, IdleApi)

\* line 70: the user puts a file in the uploader
Upload ==
    /\ out.uploader_shown
    /\ \E f \in Files : Rerun("upload", Some(f), question, FALSE, IdleApi)

\* line 70: the user removes the file from the uploader
RemoveFile ==
    /\ out.uploader_shown
    /\ uploaded_file # None
    /\ Rerun("remove", None, question, FALSE, IdleApi)

\* line 95: the user edits the question
TypeQuestion ==
    /\ out.qa_shown
    /\ \E q \in Questions \ {question} :
          Rerun("type", uploaded_file, q, FALSE, IdleApi)

\* line 98: the user presses "Ask Claude"
AskClaude ==
    /\ out.qa_shown
    /\ \E api \in ApiOutcomes : Rerun("ask", uploaded_file, question, TRUE, api)

Next == SessionStart \/ Upload \/ RemoveFile \/ TypeQuestion \/ AskClaude

Spec == Init /\ [][Next]_vars

(***************************************************************************)
(* query_claude applied to arbitrary arguments                             *)
(***************************************************************************)
FnTexts == SeqsUpTo({"a", " "}, MaxFnTextLen)

\* one call; what it renders is the debug line of get_api_key (line 18)
CallQueryClaude ==
    /\ \E d \in FnTexts, q \in FnTexts, api \in ApiOutcomes :
          LET r == query_claude(secrets, env, d, q, api) IN
          /\ fn' = [called |-> TRUE, document_text |-> d, question |-> q,
                    api |-> api, result |-> r]
          /\ out' = [out EXCEPT !.debug = r.debug]
    /\ UNCHANGED <<secrets, env, session_state, prev_session, uploaded_file, question,
                   event>>

NextFn == CallQueryClaude

SpecFn == Init /\ [][NextFn]_vars

(***************************************************************************)
(* Properties                                                              *)
(***************************************************************************)
ErrorPrefix == "Error querying Claude: "

\* neither credential source yields a non-empty value
NoCredential ==
    /\ (secrets.raised \/ secrets.val = "")
    /\ (env = None \/ env[1] = "")

\* a text that is empty or consists of whitespace only
IsBlank(text) == \A i \in 1..Len(text) : text[i] \in Whitespace

\* the pages' texts in page order, each followed by one newline
RECURSIVE PageLines(_)
PageLines(pages) ==
    IF pages = <<>> THEN <<>>
    ELSE Head(pages) \o <<"\n">> \o PageLines(Tail(pages))

\* the session state that holds exactly file f
PairOf(f) == [document_text |-> PageLines(f.pages), document_name |-> f.name]

HelloWorldText ==
    <<"H", "e", "l", "l", "o", "\n", "W", "o", "r", "l", "d", "\n">>

\* C1: query_claude never raises: with no credential, a failing request or
\* an empty content list it returns "Error querying Claude: " followed by
\* the failure's message, and otherwise the text of the first content segment.
C1_QueryClaudeNeverRaises ==
    fn.called =>
        /\ ~fn.result.raised
        /\ NoCredential => fn.result.value = ErrorPrefix \o AuthErrorMsg
        /\ (~NoCredential /\ fn.api.raised) =>
               fn.result.value = ErrorPrefix \o fn.api.msg
        /\ (~NoCredential /\ ~fn.api.raised /\ fn.api.content = <<>>) =>
               fn.result.value = ErrorPrefix \o IndexErrorMsg
        /\ (~NoCredential /\ ~fn.api.raised /\ fn.api.content # <<>>) =>
               fn.result.value = Head(fn.api.content)

C1_Witness ==
    /\ fn.called
    /\ ~NoCredential
    /\ fn.api.raised
    /\ fn.document_text # <<>>
    /\ fn.question # <<>>
    /\ fn.result.value = "Error querying Claude: Connection error."

\* C2: a press of the ask button with an empty or whitespace-only question
\* never invokes query_claude and always shows the warning.
C2_BlankQuestionNeverAsked ==
    (event = "ask" /\ IsBlank(question)) =>
        (out.query_calls = <<>> /\ out.warning)

\* C3: every execution either leaves document_text and document_name as they
\* were or sets both to the values of the file in the uploader; an upload
\* whose extraction fails leaves both as they were.
C3_PairUpdatedTogether ==
    [][ /\ \/ session_state' = session_state
           \/ /\ uploaded_file' # None
              /\ session_state'.document_name = uploaded_file'[1].name
              /\ session_state'.document_text =
                     extract_text_from_pdf(uploaded_file'[1]).text
              /\ uploaded_file'[1].valid
        /\ (uploaded_file' # None /\ ~uploaded_file'[1].valid) =>
               session_state' = session_state ]_vars

C3_Witness ==
    /\ event = "upload"
    /\ out.crashed
    /\ ~uploaded_file[1].valid
    /\ session_state.document_text # <<>>
    /\ session_state.document_name # uploaded_file[1].name
    /\ session_state = prev_session

\* C4: with no credential from either source the execution reports the
\* missing key and halts before main; main is entered only with a
\* resolved, non-empty credential.
C4_HaltsBeforeMainWithoutCredential ==
    /\ (NoCredential /\ event # "none") =>
           (out.halted /\ out.missing_key_error /\ ~out.main_entered)
    /\ out.main_entered =>
           (~NoCredential /\ out.startup_key # None /\ out.startup_key[1] # "")

C4_Witness ==
    /\ event = "start"
    /\ NoCredential
    /\ out.halted
    /\ out.missing_key_error
    /\ ~out.main_entered

\* C5: get_api_key does not propagate a failing secrets lookup and resolves
\* in priority order: the non-empty secrets value, else the non-empty
\* environment variable, else None.
C5_CredentialPriorityOrder ==
    event # "none" =>
        /\ ~(out.crashed /\ ~out.main_entered)
        /\ (~secrets.raised /\ secrets.val # "") =>
               out.startup_key = Some(secrets.val)
        /\ ((secrets.raised \/ secrets.val = "") /\ env # None /\ env[1] # "") =>
               out.startup_key = Some(env[1])
        /\ NoCredential => out.startup_key = None

C5_Witness ==
    /\ event = "start"
    /\ secrets.raised
    /\ env = Some("sk-env")
    /\ out.startup_key = Some("sk-env")
    /\ out.debug # None
    /\ out.main_entered

\* C6 as amended: extract_text_from_pdf returns the pages' texts in page
\* order, each followed by exactly one newline; for the pages "Hello" and
\* "World" the text is "Hello\nWorld\n", the word count 2 and the character
\* count 12; words are split at every whitespace character, so the page
\* "a\rb" has 2 words and 4 characters.
C6_PagesEachFollowedByNewline ==
    out.success # None =>
        LET f == uploaded_file[1]
            text == session_state.document_text IN
        /\ text = PageLines(f.pages)
        /\ Len(out.stats) = 1
        /\ out.stats[1][2] = Len(text)
        /\ f.pages = <<Hello, World>> =>
               (text = HelloWorldText /\ out.stats = Some(<<2, 12>>))
        /\ f.pages = <<CrPage>> =>
               (text = <<"a", "\r", "b", "\n">> /\ out.stats = Some(<<2, 4>>))

C6_Witness ==
    /\ out.success # None
    /\ uploaded_file[1].pages = <<Hello, World>>
    /\ session_state.document_text = HelloWorldText
    /\ out.stats = Some(<<2, 12>>)

\* C6 as stated: for the pages "Hello" and "World" the text is
\* "Hello\nWorld\n", the word count 2 and the character count 11.
C6_Original ==
    (out.success # None /\ uploaded_file[1].pages = <<Hello, World>>) =>
        (session_state.document_text = HelloWorldText
         /\ out.stats = Some(<<2, 11>>))

\* C7: a successful upload makes document_text and document_name exactly the
\* extracted text and the name of the uploaded file, whatever was stored
\* before, and no other event changes them.
C7_LatestUploadReplaces ==
    [][ /\ (event' = "upload" /\ uploaded_file'[1].valid /\ out'.main_entered) =>
               session_state' = PairOf(uploaded_file'[1])
        /\ (event' # "upload" \/ ~uploaded_file'[1].valid) =>
               session_state' = session_state ]_vars

C7_Witness ==
    /\ event = "upload"
    /\ out.success # None
    /\ prev_session.document_text # <<>>
    /\ session_state.document_text # <<>>
    /\ prev_session.document_text # session_state.document_text
    /\ prev_session.document_name # session_state.document_name
    /\ session_state = PairOf(uploaded_file[1])

\* C8: once document_text is non-empty no event makes it empty again.
C8_NoTransitionBackToNoDocument ==
    [][session_state.document_text # <<>> =>
           session_state'.document_text # <<>>]_vars

\* C9: a press of the ask button invokes query_claude if and only if
\* document_text and the question are non-empty, then once, with one
\* request, with the session's document_text and the submitted question; the
\* returned string is shown as the answer; the press changes neither
\* document_text nor document_name; no other event invokes query_claude.
C9_AskInvokesOnceIffNonEmpty ==
    /\ [](event = "ask" =>
            /\ (out.query_calls # <<>>) <=>
                   (session_state.document_text # <<>> /\ question # <<>>)
            /\ out.query_calls # <<>> =>
                   /\ out.query_calls =
                          <<[document_text |-> session_state.document_text,
                             question |-> question]>>
                   /\ Len(out.requests) = 1
                   /\ out.requests[1].prompt[2] = session_state.document_text
                   /\ out.requests[1].prompt[4] = question
                   /\ Len(out.returned) = 1
                   /\ out.answer = Some(out.returned[1])
                   /\ out.error = None
                   /\ ~out.warning)
    /\ [](event # "ask" => out.query_calls = <<>>)
    /\ [][event' = "ask" => session_state' = session_state]_vars

C9_Witness ==
    /\ event = "ask"
    /\ question # <<>>
    /\ Len(out.query_calls) = 1
    /\ out.answer = Some("Error querying Claude: Connection error.")
    /\ session_state.document_text = HelloWorldText

\* C10: an execution triggered by editing the question or pressing the ask
\* button does not invoke extract_text_from_pdf.
C10_NoExtractionOnQuestionEvents ==
    event \in {"type", "ask"} => out.extract_calls = 0

====
